---- MODULE Spec2Model ----
(***************************************************************************)
(* Model of match.h: the pattern encoding, evaluate_pattern,               *)
(* evaluate_pattern_enhanced and the match / when / otherwise and          *)
(* match_expr / is / in dispatchers.                                       *)
(*                                                                         *)
(* A 64-bit machine word (void*, intptr_t, uintptr_t) is a tuple of four   *)
(* 16-bit limbs <<l3, l2, l1, l0>>, l3 the most significant.  A uint32_t    *)
(* is a pair of limbs <<hi, lo>>.                                          *)
(***************************************************************************)
EXTENDS Integers, Sequences, FiniteSets, TLC

Limb == 65536

\* ------------------------------------------------------------------------
\* 64-bit words
\* ------------------------------------------------------------------------

\* (intptr_t)(x) for a C int x: sign extension to 64 bits.
FromInt(x) ==
    LET s == IF x < 0 THEN Limb - 1 ELSE 0
    IN  <<s, s, (x \div Limb) % Limb, x % Limb>>

\* (uint16_t)(x) of a word.
U16(w) == w[4]

\* (uint32_t)(x) of a word.
U32(w) == <<w[3], w[4]>>

\* (intptr_t)(int16_t)(h) for a 16-bit field h: sign extension.
SignExtend16(h) ==
    IF h >= 32768 THEN <<Limb - 1, Limb - 1, Limb - 1, h>> ELSE <<0, 0, 0, h>>

\* Unsigned order on words (uintptr_t comparison).
ULt(a, b) ==
    \E i \in 1..4 : a[i] < b[i] /\ \A j \in 1..(i - 1) : a[j] = b[j]

\* Signed order on words (intptr_t comparison): the top limb carries the sign.
STop(w) == IF w[1] >= 32768 THEN w[1] - Limb ELSE w[1]

SLt(a, b) ==
    \/ STop(a) < STop(b)
    \/ /\ STop(a) = STop(b)
       /\ \E i \in 2..4 : a[i] < b[i] /\ \A j \in 2..(i - 1) : a[j] = b[j]

SLe(a, b) == a = b \/ SLt(a, b)

\* Pointer arithmetic (char*)p + k for a small k, modulo 2^64.
AddSmall(w, k) ==
    LET s0 == w[4] + k
        s1 == w[3] + (s0 \div Limb)
        s2 == w[2] + (s1 \div Limb)
        s3 == w[1] + (s2 \div Limb)
    IN  <<s3 % Limb, s2 % Limb, s1 % Limb, s0 % Limb>>

NullPtr == <<0, 0, 0, 0>>

\* 0x1000, the "pointer sanity" threshold of evaluate_pattern_enhanced.
PtrThreshold == <<0, 0, 0, 4096>>

\* ------------------------------------------------------------------------
\* Pattern creation macros
\* ------------------------------------------------------------------------

\* __ : ((void*)0x1DEADBEEF)
WILDCARD == <<0, 1, 57005, 48879>>

\* The wildcard test against 0xDEADBEEF, the constant without its bit 32.
IS_WILDCARD_Low32(v) == v = <<0, 0, 57005, 48879>>

IS_WILDCARD(v) == v = WILDCARD

\* 0xT000000000000000 | ((uintptr_t)(val) & 0x0FFFFFFFFFFFFFFF)
Inequality(t, val) == <<t * 4096 + (val[1] % 4096), val[2], val[3], val[4]>>

gt(val) == Inequality(1, val)
\* ge with the type nibble of gt.
ge_Strict(val) == Inequality(1, val)
ge(val) == Inequality(2, val)
lt(val) == Inequality(3, val)
le(val) == Inequality(4, val)
ne(val) == Inequality(5, val)

\* 0x6000000000000000 | ((uint64_t)((uint16_t)(low)) << 32) | (uint16_t)(high)
range(low, high) == <<6 * 4096, U16(low), 0, U16(high)>>

\* 0x7000000000000000 | ((uint64_t)((uint16_t)(low)) << 32) | (uint16_t)(high)
between(low, high) == <<7 * 4096, U16(low), 0, U16(high)>>

\* variant keeping the low 16 bits of the tag only.
variant_Low16(tag) == <<8 * 4096, 0, tag[2], 1>>

\* 0x8000000000000000 | ((uint64_t)((uint32_t)(tag)) << 16) | 1
variant(tag) == <<8 * 4096, tag[1], tag[2], 1>>

\* ------------------------------------------------------------------------
\* Pattern decoding utilities
\* ------------------------------------------------------------------------

GET_PATTERN_TYPE(p) == p[1] \div 4096

GET_PATTERN_VALUE(p) == <<p[1] % 4096, p[2], p[3], p[4]>>

GET_RANGE_LOW(p) == SignExtend16(p[2])

GET_RANGE_HIGH(p) == SignExtend16(p[4])

\* The tag decoded through a 16-bit mask: ((p) >> 16) & 0xFFFF.
GET_VARIANT_TAG_Mask16(p) == <<0, p[3]>>

GET_VARIANT_TAG(p) == <<p[2], p[3]>>

\* ------------------------------------------------------------------------
\* Memory
\* ------------------------------------------------------------------------

\* Byte offset of the payload union behind the discriminant.
VARIANT_UNION_OFFSET == 8

\* *(uint32_t*)a.  h is the set of objects the program owns, a function
\* from their addresses to the uint32_t stored there.  Any other address is
\* not an object of the program: the read is undefined, and w is what this
\* run makes of it, either a fault (w.mapped = FALSE) or the word w.val.
Deref(h, w, a) ==
    IF a \in DOMAIN h THEN [ok |-> TRUE, val |-> h[a]]
    ELSE [ok |-> w.mapped, val |-> w.val]

\* ------------------------------------------------------------------------
\* Pattern evaluation engine
\* ------------------------------------------------------------------------

\* The outcome of an evaluation: the int returned, whether the call faulted
\* on a read instead of returning, and __variant_extracted_value afterwards.
Outcome(r, f, e) == [ret |-> r, fault |-> f, ext |-> e]

B2I(b) == IF b THEN 1 ELSE 0

\* evaluate_pattern recording the payload address before it compares tags.
evaluate_pattern_ExtractsFirst(h, w, ext, actual, pattern) ==
    IF IS_WILDCARD(pattern) THEN Outcome(1, FALSE, ext)
    ELSE LET type == GET_PATTERN_TYPE(pattern) IN
      IF type = 8
      THEN LET union_tag == Deref(h, w, actual) IN
           IF ~union_tag.ok THEN Outcome(0, TRUE, ext)
           ELSE Outcome(B2I(union_tag.val = GET_VARIANT_TAG(pattern)), FALSE,
                        AddSmall(actual, VARIANT_UNION_OFFSET))
      ELSE IF type = 0 THEN Outcome(B2I(actual = pattern), FALSE, ext)
      ELSE IF type = 1
      THEN Outcome(B2I(SLt(GET_PATTERN_VALUE(pattern), actual)), FALSE, ext)
      ELSE IF type = 2
      THEN Outcome(B2I(SLe(GET_PATTERN_VALUE(pattern), actual)), FALSE, ext)
      ELSE IF type = 3
      THEN Outcome(B2I(SLt(actual, GET_PATTERN_VALUE(pattern))), FALSE, ext)
      ELSE IF type = 4
      THEN Outcome(B2I(SLe(actual, GET_PATTERN_VALUE(pattern))), FALSE, ext)
      ELSE IF type = 5
      THEN Outcome(B2I(actual # GET_PATTERN_VALUE(pattern)), FALSE, ext)
      ELSE IF type = 6
      THEN Outcome(B2I(SLt(GET_RANGE_LOW(pattern), actual)
                       /\ SLt(actual, GET_RANGE_HIGH(pattern))), FALSE, ext)
      ELSE IF type = 7
      THEN Outcome(B2I(SLe(GET_RANGE_LOW(pattern), actual)
                       /\ SLe(actual, GET_RANGE_HIGH(pattern))), FALSE, ext)
      ELSE Outcome(0, FALSE, ext)

evaluate_pattern(h, w, ext, actual, pattern) ==
    IF IS_WILDCARD(pattern) THEN Outcome(1, FALSE, ext)
    ELSE LET type == GET_PATTERN_TYPE(pattern) IN
      CASE type = 0 -> Outcome(B2I(actual = pattern), FALSE, ext)
        [] type = 1 -> Outcome(B2I(SLt(GET_PATTERN_VALUE(pattern), actual)), FALSE, ext)
        [] type = 2 -> Outcome(B2I(SLe(GET_PATTERN_VALUE(pattern), actual)), FALSE, ext)
        [] type = 3 -> Outcome(B2I(SLt(actual, GET_PATTERN_VALUE(pattern))), FALSE, ext)
        [] type = 4 -> Outcome(B2I(SLe(actual, GET_PATTERN_VALUE(pattern))), FALSE, ext)
        [] type = 5 -> Outcome(B2I(actual # GET_PATTERN_VALUE(pattern)), FALSE, ext)
        [] type = 6 ->
             LET low == GET_RANGE_LOW(pattern)
                 high == GET_RANGE_HIGH(pattern)
             IN  Outcome(B2I(SLt(low, actual) /\ SLt(actual, high)), FALSE, ext)
        [] type = 7 ->
             LET low == GET_RANGE_LOW(pattern)
                 high == GET_RANGE_HIGH(pattern)
             IN  Outcome(B2I(SLe(low, actual) /\ SLe(actual, high)), FALSE, ext)
        [] type = 8 ->
             LET expected_tag == GET_VARIANT_TAG(pattern)
                 union_tag == Deref(h, w, actual)
             IN  IF ~union_tag.ok THEN Outcome(0, TRUE, ext)
                 ELSE IF union_tag.val = expected_tag
                      THEN Outcome(1, FALSE, AddSmall(actual, VARIANT_UNION_OFFSET))
                      ELSE Outcome(0, FALSE, ext)
        [] OTHER -> Outcome(0, FALSE, ext)

\* The auto-variant branch with the tag range test "potential_tag <= 0xFF".
evaluate_pattern_enhanced_ByteTag(h, w, ext, subject, actual, pattern) ==
    IF subject # NullPtr /\ ULt(PtrThreshold, subject)
    THEN LET actual_struct == IF ULt(PtrThreshold, actual) THEN actual ELSE subject
             pattern_val == pattern
         IN  IF pattern_val[1] = 0 /\ pattern_val[2] = 0 /\ pattern_val[3] = 0
             THEN LET potential_tag == Deref(h, w, actual_struct) IN
                  IF ~potential_tag.ok THEN Outcome(0, TRUE, ext)
                  ELSE IF /\ potential_tag.val[1] = 0
                          /\ potential_tag.val[2] > 0
                          /\ potential_tag.val[2] <= 255
                          /\ potential_tag.val = U32(pattern_val)
                       THEN evaluate_pattern(h, w, ext, actual_struct,
                                             variant(potential_tag.val))
                       ELSE evaluate_pattern(h, w, ext, actual, pattern)
             ELSE evaluate_pattern(h, w, ext, actual, pattern)
    ELSE evaluate_pattern(h, w, ext, actual, pattern)

evaluate_pattern_enhanced(h, w, ext, subject, actual, pattern) ==
    IF subject # NullPtr /\ ULt(PtrThreshold, subject)
    THEN LET actual_struct == IF ULt(PtrThreshold, actual) THEN actual ELSE subject
             pattern_val == pattern
         IN  IF pattern_val[1] = 0 /\ pattern_val[2] = 0 /\ pattern_val[3] = 0
             THEN LET potential_tag == Deref(h, w, actual_struct) IN
                  IF ~potential_tag.ok THEN Outcome(0, TRUE, ext)
                  ELSE IF /\ potential_tag.val[1] = 0
                          /\ potential_tag.val[2] > 0
                          /\ potential_tag.val = U32(pattern_val)
                       THEN evaluate_pattern(h, w, ext, actual_struct,
                                             variant(potential_tag.val))
                       ELSE evaluate_pattern(h, w, ext, actual, pattern)
             ELSE evaluate_pattern(h, w, ext, actual, pattern)
    ELSE evaluate_pattern(h, w, ext, actual, pattern)

\* ------------------------------------------------------------------------
\* Arguments of the macros
\* ------------------------------------------------------------------------

\* An argument written in the program text: a C int expression of value x,
\* or a pointer-sized value p (a void* pattern, an object's address, a long).
IntArg(x) == [t |-> "int", x |-> x, p |-> NullPtr]
PtrArg(p) == [t |-> "ptr", x |-> 0, p |-> p]

\* _auto_pattern(x): an integer becomes (void*)(intptr_t)(x), a void* stays.
auto_pattern(a) == IF a.t = "int" THEN FromInt(a.x) ELSE a.p

\* (void*)(intptr_t)(a) and (void*)(a) of a subject expression.
CastSubject(a) == IF a.t = "int" THEN FromInt(a.x) ELSE a.p

\* A subject expression with a side effect: a call such as next_val() that
\* returns x the first time it is evaluated, x + 1 the second time, ...
CallArg(x) == [t |-> "call", x |-> x, p |-> NullPtr]

\* The value subject expression a has at its k-th evaluation in a dispatch.
Evaluate(a, k) == IF a.t = "call" THEN IntArg(a.x + (k - 1)) ELSE a

\* &__vN_val, the address of the local copy MATCH_EXPR_1/2 make of subject i.
LocalAddr(i) == <<0, 32765, 16384, 16 * i>>

\* ------------------------------------------------------------------------
\* The dispatchers
\* ------------------------------------------------------------------------

VARIABLES
    form,          \* "stmt": match/when/otherwise, "expr": match_expr/is/in
    args,          \* the subject expressions a1..aN
    clauses,       \* the pattern lists of the when / is clauses, in order
    hasOtherwise,  \* statement form: the block ends with otherwise
    heap,          \* the objects of the program: address -> uint32_t there
    v,             \* __v1..__vN
    v_orig,        \* __v1_orig..__vN_orig
    matched,       \* __matched
    variant_extracted_value,  \* __variant_extracted_value
    pc,            \* where control is
    ci,            \* the clause control is at (0: otherwise / default)
    res,           \* outcome of each clause tested in this pass
    ran,           \* the bodies run so far, in order (0: otherwise)
    passes,        \* number of times the clause list was entered
    result         \* __result: the expression selected (0: the default)

\* The state of a program that uses the Option and Result types.
VARIABLES
    opt,           \* an Option_int object of the program
    rst,           \* a Result_int object of the program
    opt_origin,    \* the conversion chain opt came out of, if any
    rst_origin,    \* the OPTION_TO_RESULT call rst came out of, if any
    last           \* the last operation: its operands, result and effects

\* Subject evaluations, and a match written inside the body of a clause.
VARIABLES
    evals,         \* how many times each subject expression was evaluated
    nested,        \* the dispatch written inside one body of the block, if any
    outer,         \* the enclosing dispatch while the nested one runs
    inner          \* the nested dispatch once it has completed

nesting == <<nested, outer, inner>>

dispatch == <<form, args, clauses, hasOtherwise, heap, v, v_orig, matched,
              variant_extracted_value, pc, ci, res, ran, passes, result,
              evals, nested, outer, inner>>

lib == <<opt, rst, opt_origin, rst_origin, last>>

vars == <<form, args, clauses, hasOtherwise, heap, v, v_orig, matched,
          variant_extracted_value, pc, ci, res, ran, passes, result,
          opt, rst, opt_origin, rst_origin, last,
          evals, nested, outer, inner>>

\* Bound on the re-executions of the block that the model follows.
MaxPasses == 3

\* What a read through a pointer that is no object of the program may give:
\* a fault, or the 32 bits that happen to lie there.
WildOutcomes ==
    { [mapped |-> FALSE, val |-> <<0, 0>>],
      [mapped |-> TRUE, val |-> <<0, 0>>] }

\* Outcomes of a clause test, as recorded in res.
Skipped == 2

\* evaluate_pattern_enhanced(__v1_orig, (intptr_t)__v1, _auto_pattern(x1)) &&
\* ... && evaluate_pattern_enhanced(__vM_orig, (intptr_t)__vM, _auto_pattern(xM)),
\* from position i on, left to right with short circuit.
RECURSIVE Conjunction(_, _, _, _, _, _, _)
Conjunction(h, w, ext, vo, vv, pats, i) ==
    IF i > Len(pats) THEN Outcome(1, FALSE, ext)
    ELSE LET o == evaluate_pattern_enhanced(h, w, ext, vo[i], vv[i],
                                            auto_pattern(pats[i]))
         IN  IF o.fault \/ o.ret = 0 THEN o
             ELSE Conjunction(h, w, o.ext, vo, vv, pats, i + 1)

\* WHEN_M with the test of its last position left out.
WHEN_N_DropsLast(h, w, ext, vo, vv, pats) ==
    Conjunction(h, w, ext, vo, vv, SubSeq(pats, 1, Len(pats) - 1), 1)

\* The condition of WHEN_M without its !__matched and (__matched = 1) ends.
WHEN_N(h, w, ext, vo, vv, pats) == Conjunction(h, w, ext, vo, vv, pats, 1)

\* IS_M testing its first position only.
IS_N_FirstOnly(h, w, ext, vo, vv, pats) ==
    Conjunction(h, w, ext, vo, vv, SubSeq(pats, 1, 1), 1)

\* IS_M(x1..xM)
IS_N(h, w, ext, vo, vv, pats) == Conjunction(h, w, ext, vo, vv, pats, 1)

N == Len(args)
K == Len(clauses)

\* match(a1..aN): the for-headers of MATCH_N up to the block.
Match ==
    /\ pc = "start"
    /\ UNCHANGED <<lib, nesting>>
    /\ form = "stmt"
    /\ matched' = 0
    /\ v' = [i \in 1..N |-> CastSubject(Evaluate(args[i], 1))]
    /\ v_orig' = [i \in 1..N |-> CastSubject(Evaluate(args[i], 2))]
    /\ evals' = [i \in 1..N |-> 2]
    /\ pc' = "clause"
    /\ ci' = 1
    /\ passes' = 1
    /\ UNCHANGED <<form, args, clauses, hasOtherwise, heap,
                   variant_extracted_value, res, ran, result>>

\* Where control goes after the if-statement of when clause c.
AfterWhen(c, taken) ==
    IF c < K THEN "clause"
    ELSE IF hasOtherwise /\ ~taken THEN "otherwise"
    ELSE "looptest"

\* when(x1..xM): the if-condition of WHEN_M.
When ==
    /\ pc = "clause"
    /\ UNCHANGED <<lib, nesting, evals>>
    /\ form = "stmt"
    /\ IF matched # 0
       THEN /\ res' = Append(res, Skipped)
            /\ pc' = AfterWhen(ci, FALSE)
            /\ ci' = IF ci < K THEN ci + 1 ELSE ci
            /\ UNCHANGED <<matched, variant_extracted_value>>
       ELSE \E w \in WildOutcomes :
            LET o == WHEN_N(heap, w, variant_extracted_value, v_orig, v,
                            clauses[ci])
            IN  /\ variant_extracted_value' = o.ext
                /\ IF o.fault
                   THEN /\ pc' = "fault"
                        /\ UNCHANGED <<matched, ci, res>>
                   ELSE IF o.ret # 0
                   THEN /\ matched' = 1
                        /\ res' = Append(res, 1)
                        /\ pc' = "body"
                        /\ UNCHANGED ci
                   ELSE /\ res' = Append(res, 0)
                        /\ pc' = AfterWhen(ci, FALSE)
                        /\ ci' = IF ci < K THEN ci + 1 ELSE ci
                        /\ UNCHANGED matched
    /\ UNCHANGED <<form, args, clauses, hasOtherwise, heap, v, v_orig, ran,
                   passes, result>>

\* otherwise: else if (!__matched && (__matched = 1))
Otherwise ==
    /\ pc = "otherwise"
    /\ UNCHANGED <<lib, nesting, evals>>
    /\ IF matched = 0
       THEN /\ matched' = 1
            /\ ci' = 0
            /\ pc' = "body"
       ELSE /\ pc' = "looptest"
            /\ UNCHANGED <<matched, ci>>
    /\ UNCHANGED <<form, args, clauses, hasOtherwise, heap, v, v_orig,
                   variant_extracted_value, res, ran, passes, result>>

\* The body control is about to run is the one holding the nested dispatch.
HasNested == outer = <<>> /\ nested.on /\ nested.at = ci

NoInner == [on |-> FALSE, ran |-> <<>>, res |-> <<>>, result |-> -1]

\* The braces after a when or otherwise whose condition held.
Body ==
    /\ pc = "body"
    /\ ~HasNested
    /\ UNCHANGED <<lib, nesting, evals>>
    /\ ran' = Append(ran, ci)
    /\ pc' = IF ci = 0 THEN "looptest" ELSE AfterWhen(ci, TRUE)
    /\ ci' = IF ci # 0 /\ ci < K THEN ci + 1 ELSE ci
    /\ UNCHANGED <<form, args, clauses, hasOtherwise, heap, v, v_orig,
                   matched, variant_extracted_value, res, passes, result>>

\* The end of the block: the condition !__matched of the innermost for is
\* tested again, then those of the enclosing ones.
LoopTest ==
    /\ pc = "looptest"
    /\ UNCHANGED <<lib, nesting, evals>>
    /\ IF matched # 0
       THEN /\ pc' = "done"
            /\ UNCHANGED <<ci, res, passes>>
       ELSE /\ passes < MaxPasses
            /\ pc' = "clause"
            /\ ci' = 1
            /\ res' = <<>>
            /\ passes' = passes + 1
    /\ UNCHANGED <<form, args, clauses, hasOtherwise, heap, v, v_orig,
                   matched, variant_extracted_value, ran, result>>

\* match_expr(a1..aN): MATCH_EXPR_1 and MATCH_EXPR_2 copy each subject to a
\* local and take the local's address as __vN_orig; MATCH_EXPR_3..10 take the
\* subject's own value for both views.
MatchExpr ==
    /\ pc = "start"
    /\ UNCHANGED <<lib, nesting>>
    /\ form = "expr"
    /\ v' = [i \in 1..N |-> CastSubject(Evaluate(args[i], 1))]
    /\ IF N <= 2
       THEN /\ v_orig' = [i \in 1..N |-> LocalAddr(i)]
            /\ heap' = [a \in DOMAIN heap \cup {LocalAddr(i) : i \in 1..N} |->
                          IF \E i \in 1..N : a = LocalAddr(i)
                          THEN U32(CastSubject(Evaluate(
                                 args[CHOOSE i \in 1..N : a = LocalAddr(i)], 1)))
                          ELSE heap[a]]
            /\ evals' = [i \in 1..N |-> 1]
       ELSE /\ v_orig' = [i \in 1..N |-> CastSubject(Evaluate(args[i], 2))]
            /\ evals' = [i \in 1..N |-> 2]
            /\ UNCHANGED heap
    /\ pc' = "clause"
    /\ ci' = 1
    /\ passes' = 1
    /\ UNCHANGED <<form, args, clauses, hasOtherwise, matched,
                   variant_extracted_value, res, ran, result>>

\* is(x1..xM) ? e : ...   the condition of one link of the ternary chain.
Is ==
    /\ pc = "clause"
    /\ UNCHANGED <<lib, nesting, evals>>
    /\ form = "expr"
    /\ \E w \in WildOutcomes :
         LET o == IS_N(heap, w, variant_extracted_value, v_orig, v, clauses[ci])
         IN  /\ variant_extracted_value' = o.ext
             /\ IF o.fault
                THEN /\ pc' = "fault"
                     /\ UNCHANGED <<ci, res, result>>
                ELSE IF o.ret # 0
                THEN /\ res' = Append(res, 1)
                     /\ result' = ci
                     /\ pc' = "in"
                     /\ UNCHANGED ci
                ELSE /\ res' = Append(res, 0)
                     /\ UNCHANGED result
                     /\ IF ci < K
                        THEN /\ ci' = ci + 1
                             /\ pc' = "clause"
                        ELSE /\ ci' = 0
                             /\ pc' = "default"
    /\ UNCHANGED <<form, args, clauses, hasOtherwise, heap, v, v_orig,
                   matched, ran, passes>>

\* The chain ending in its first expression instead of the default.
Default_YieldsFirst ==
    /\ pc = "default"
    /\ UNCHANGED <<lib, nesting, evals>>
    /\ result' = 1
    /\ pc' = "in"
    /\ UNCHANGED <<form, args, clauses, hasOtherwise, heap, v, v_orig,
                   matched, variant_extracted_value, ci, res, ran, passes>>

\* The trailing default expression of the chain.
Default ==
    /\ pc = "default"
    /\ UNCHANGED <<lib, nesting, evals>>
    /\ result' = 0
    /\ pc' = "in"
    /\ UNCHANGED <<form, args, clauses, hasOtherwise, heap, v, v_orig,
                   matched, variant_extracted_value, ci, res, ran, passes>>

\* in(expr): (expr); __result; })
In ==
    /\ pc = "in"
    /\ UNCHANGED <<lib, nesting, evals>>
    /\ pc' = "done"
    /\ UNCHANGED <<form, args, clauses, hasOtherwise, heap, v, v_orig,
                   matched, variant_extracted_value, ci, res, ran, passes,
                   result>>

\* A body that holds a dispatch of its own: the inner MATCH_N / MATCH_EXPR_N
\* declares its own __matched and __v1.., which hide the enclosing ones
\* until the inner block ends.
EnterNested ==
    /\ pc = "body"
    /\ HasNested
    /\ UNCHANGED lib
    /\ outer' = << [form |-> form, args |-> args, clauses |-> clauses,
                    hasOtherwise |-> hasOtherwise, v |-> v, v_orig |-> v_orig,
                    matched |-> matched, ci |-> ci, res |-> res, ran |-> ran,
                    passes |-> passes, result |-> result, evals |-> evals] >>
    /\ form' = nested.form
    /\ args' = nested.args
    /\ clauses' = nested.clauses
    /\ hasOtherwise' = nested.ow
    /\ evals' = [i \in 1..Len(nested.args) |-> 0]
    /\ v' = <<>>
    /\ v_orig' = <<>>
    /\ pc' = "start"
    /\ ci' = 0
    /\ res' = <<>>
    /\ ran' = <<>>
    /\ passes' = 0
    /\ result' = -1
    /\ UNCHANGED <<matched, heap, variant_extracted_value, nested, inner>>

\* The end of the nested dispatch clearing the flag of the enclosing one.
LeaveNested_ClearsFlag ==
    /\ pc = "done"
    /\ outer # <<>>
    /\ UNCHANGED lib
    /\ LET f == outer[1] IN
       /\ inner' = [on |-> TRUE, ran |-> ran, res |-> res, result |-> result]
       /\ outer' = <<>>
       /\ form' = f.form
       /\ args' = f.args
       /\ clauses' = f.clauses
       /\ hasOtherwise' = f.hasOtherwise
       /\ v' = f.v
       /\ v_orig' = f.v_orig
       /\ matched' = 0
       /\ evals' = f.evals
       /\ res' = f.res
       /\ passes' = f.passes
       /\ result' = f.result
       /\ ran' = Append(f.ran, f.ci)
       /\ pc' = IF f.ci # 0 /\ f.ci < Len(f.clauses) THEN "clause"
                ELSE "looptest"
       /\ ci' = IF f.ci # 0 /\ f.ci < Len(f.clauses) THEN f.ci + 1 ELSE f.ci
    /\ UNCHANGED <<heap, variant_extracted_value, nested>>

\* The nested dispatch has completed: its locals go out of scope, the body
\* ends, and control is behind the if-statement of the enclosing clause.
LeaveNested ==
    /\ pc = "done"
    /\ outer # <<>>
    /\ UNCHANGED lib
    /\ LET f == outer[1] IN
       /\ inner' = [on |-> TRUE, ran |-> ran, res |-> res, result |-> result]
       /\ outer' = <<>>
       /\ form' = f.form
       /\ args' = f.args
       /\ clauses' = f.clauses
       /\ hasOtherwise' = f.hasOtherwise
       /\ v' = f.v
       /\ v_orig' = f.v_orig
       /\ matched' = f.matched
       /\ evals' = f.evals
       /\ res' = f.res
       /\ passes' = f.passes
       /\ result' = f.result
       /\ ran' = Append(f.ran, f.ci)
       /\ pc' = IF f.ci # 0 /\ f.ci < Len(f.clauses) THEN "clause"
                ELSE "looptest"
       /\ ci' = IF f.ci # 0 /\ f.ci < Len(f.clauses) THEN f.ci + 1 ELSE f.ci
    /\ UNCHANGED <<heap, variant_extracted_value, nested>>

Next ==
    \/ Match
    \/ When
    \/ Otherwise
    \/ Body
    \/ LoopTest
    \/ MatchExpr
    \/ Is
    \/ Default
    \/ In
    \/ EnterNested
    \/ LeaveNested

\* ------------------------------------------------------------------------
\* Programs and inputs the dispatchers are run on
\* ------------------------------------------------------------------------

\* Discriminants: ResultTag { Ok = 1, Err = 2 }, OptionTag { Some = 3, None = 4 }
Ok == <<0, 1>>
Err == <<0, 2>>
Some == <<0, 3>>
None == <<0, 4>>

\* ------------------------------------------------------------------------
\* Option and Result types
\* ------------------------------------------------------------------------

\* Result_int / Option_int: the discriminant, the padding word and the
\* union, of which the member last stored (m) holds x.

\* static inline Result_int ok_int(int val)
ok_T(val) == [tag |-> Ok, _padding |-> 0, u |-> [m |-> "value", x |-> val]]

\* static inline Result_int err_int(const char* msg)
err_T(msg) == [tag |-> Err, _padding |-> 0, u |-> [m |-> "error", x |-> msg]]

\* static inline Option_int some_int(int val)
some_T(val) == [tag |-> Some, _padding |-> 0, u |-> [m |-> "value", x |-> val]]

\* static inline Option_int none_int(void)
none_T ==
    [tag |-> None, _padding |-> 0, u |-> [m |-> "_padding_union", x |-> 0]]

\* is_ok accepting every nonzero discriminant.
is_ok_AnyTag(r) == r.tag # <<0, 0>>
is_ok(r) == r.tag = Ok
is_err(r) == r.tag = Err
is_some(o) == o.tag = Some
is_none(o) == o.tag = None

\* s->member.  Reading a member other than the one last stored gives g,
\* whatever the bytes of the union make of it.
Member(s, member, g) == IF s.u.m = member THEN s.u.x ELSE g

\* The functions handed to the combinators: int -> int,
Mappers == {"negate", "absolute"}

CallMapper(func, x) ==
    CASE func = "negate" -> 0 - x
      [] func = "absolute" -> IF x < 0 THEN 0 - x ELSE x

\* int -> Option_int and int -> Result_int,
Binders == {"keep_positive", "keep_all"}

CallOptionBinder(func, x) ==
    CASE func = "keep_positive" -> IF x > 0 THEN some_T(x) ELSE none_T
      [] func = "keep_all" -> some_T(x)

CallResultBinder(func, x) ==
    CASE func = "keep_positive" -> IF x > 0 THEN ok_T(x) ELSE err_T("negative")
      [] func = "keep_all" -> ok_T(x)

\* and int -> bool.
Predicates == {"is_positive", "is_zero"}

CallPredicate(predicate, x) ==
    CASE predicate = "is_positive" -> x > 0
      [] predicate = "is_zero" -> x = 0

\* What an operation leaves behind besides its value: the arguments its
\* function was called with, in order, and the union members it read.
Effect(val, calls, reads) == [val |-> val, calls |-> calls, reads |-> reads]

\* unwrap_or without the is_ok test.
unwrap_or_Unchecked(r, default_val, g) ==
    Effect(Member(r, "value", g), <<>>, {"value"})

\* unwrap_or(result_ptr, default_val)
unwrap_or(r, default_val, g) ==
    IF is_ok(r) THEN Effect(Member(r, "value", g), <<>>, {"value"})
    ELSE Effect(default_val, <<>>, {})

\* unwrap_option_or(option_ptr, default_val)
unwrap_option_or(o, default_val, g) ==
    IF is_some(o) THEN Effect(Member(o, "value", g), <<>>, {"value"})
    ELSE Effect(default_val, <<>>, {})

\* RESULT_MAP calling func before it tests the discriminant.
RESULT_MAP_Eager(r, func, gv, gm) ==
    LET x == Member(r, "value", gv) IN
    IF is_ok(r) THEN Effect(ok_T(CallMapper(func, x)), <<x>>, {"value"})
    ELSE Effect(err_T(Member(r, "error", gm)), <<x>>, {"value", "error"})

\* RESULT_MAP(result_ptr, func, result_type)
RESULT_MAP(r, func, gv, gm) ==
    IF is_ok(r)
    THEN LET x == Member(r, "value", gv)
         IN  Effect(ok_T(CallMapper(func, x)), <<x>>, {"value"})
    ELSE Effect(err_T(Member(r, "error", gm)), <<>>, {"error"})

\* RESULT_AND_THEN(result_ptr, func)
RESULT_AND_THEN(r, func, gv) ==
    IF is_ok(r)
    THEN LET x == Member(r, "value", gv)
         IN  Effect(CallResultBinder(func, x), <<x>>, {"value"})
    ELSE Effect(r, <<>>, {})

\* OPTION_MAP(option_ptr, func, option_type)
OPTION_MAP(o, func, gv) ==
    IF is_some(o)
    THEN LET x == Member(o, "value", gv)
         IN  Effect(some_T(CallMapper(func, x)), <<x>>, {"value"})
    ELSE Effect(none_T, <<>>, {})

\* OPTION_AND_THEN(option_ptr, func)
OPTION_AND_THEN(o, func, gv) ==
    IF is_some(o)
    THEN LET x == Member(o, "value", gv)
         IN  Effect(CallOptionBinder(func, x), <<x>>, {"value"})
    ELSE Effect(o, <<>>, {})

\* OPTION_FILTER yielding a zeroed object when the predicate rejects.
OPTION_FILTER_Zeroed(o, predicate, gv) ==
    IF is_some(o)
    THEN LET x == Member(o, "value", gv)
         IN  Effect(IF CallPredicate(predicate, x) THEN o
                    ELSE [tag |-> <<0, 0>>, _padding |-> 0,
                          u |-> [m |-> "_padding_union", x |-> 0]],
                    <<x>>, {"value"})
    ELSE Effect(none_T, <<>>, {})

\* OPTION_FILTER(option_ptr, predicate)
OPTION_FILTER(o, predicate, gv) ==
    IF is_some(o)
    THEN LET x == Member(o, "value", gv)
         IN  Effect(IF CallPredicate(predicate, x) THEN o ELSE none_T,
                    <<x>>, {"value"})
    ELSE Effect(none_T, <<>>, {})

\* OPTION_TO_RESULT with a message of its own.
OPTION_TO_RESULT_FixedMessage(o, error_msg, gv) ==
    IF is_some(o) THEN Effect(ok_T(Member(o, "value", gv)), <<>>, {"value"})
    ELSE Effect(err_T("No value"), <<>>, {})

\* OPTION_TO_RESULT(option_ptr, error_msg, result_type)
OPTION_TO_RESULT(o, error_msg, gv) ==
    IF is_some(o) THEN Effect(ok_T(Member(o, "value", gv)), <<>>, {"value"})
    ELSE Effect(err_T(error_msg), <<>>, {})

\* RESULT_TO_OPTION without the is_ok test.
RESULT_TO_OPTION_AlwaysSome(r, gv) ==
    Effect(some_T(Member(r, "value", gv)), <<>>, {"value"})

\* RESULT_TO_OPTION(result_ptr, option_type)
RESULT_TO_OPTION(r, gv) ==
    IF is_ok(r) THEN Effect(some_T(Member(r, "value", gv)), <<>>, {"value"})
    ELSE Effect(none_T, <<>>, {})

\* Payloads, defaults and messages the program uses.
Payloads == {-5, 0, 5}
Defaults == {0, 999}
Messages == {"x", "e"}

\* What the bytes of a union read through the wrong member may amount to.
GarbageValues == {0, 1768843629}
GarbageMessages == {"<dangling>"}

\* The record kept of the last operation.
Op(name, in, argv, argm, argf, e) ==
    [name |-> name, in |-> in, argv |-> argv, argm |-> argm, argf |-> argf,
     outv |-> IF name \in {"unwrap_or", "unwrap_option_or"} THEN e.val ELSE 0,
     calls |-> e.calls, reads |-> e.reads]

NoEffect == Effect(0, <<>>, {})

\* No conversion behind the object.
NoOrigin == [set |-> FALSE, o |-> none_T, e |-> ""]

\* The library is not in use (the program is a dispatch).
LibIdle ==
    /\ opt = none_T
    /\ rst = ok_T(0)
    /\ opt_origin = NoOrigin
    /\ rst_origin = NoOrigin
    /\ last = Op("idle", none_T, 0, "", "", NoEffect)

\* opt = some_int(val);
SomeInt ==
    \E val \in Payloads :
        /\ opt' = some_T(val)
        /\ opt_origin' = NoOrigin
        /\ last' = Op("some", none_T, val, "", "", NoEffect)
        /\ UNCHANGED <<rst, rst_origin, dispatch>>

\* opt = none_int();
NoneInt ==
    /\ opt' = none_T
    /\ opt_origin' = NoOrigin
    /\ last' = Op("none", none_T, 0, "", "", NoEffect)
    /\ UNCHANGED <<rst, rst_origin, dispatch>>

\* rst = ok_int(val);
OkInt ==
    \E val \in Payloads :
        /\ rst' = ok_T(val)
        /\ rst_origin' = NoOrigin
        /\ last' = Op("ok", none_T, val, "", "", NoEffect)
        /\ UNCHANGED <<opt, opt_origin, dispatch>>

\* rst = err_int(msg);
ErrInt ==
    \E msg \in Messages :
        /\ rst' = err_T(msg)
        /\ rst_origin' = NoOrigin
        /\ last' = Op("err", none_T, 0, msg, "", NoEffect)
        /\ UNCHANGED <<opt, opt_origin, dispatch>>

\* unwrap_or(&rst, default_val)
UnwrapOr ==
    \E default_val \in Defaults, g \in GarbageValues :
        /\ last' = Op("unwrap_or", rst, default_val, "", "",
                      unwrap_or(rst, default_val, g))
        /\ UNCHANGED <<opt, rst, opt_origin, rst_origin, dispatch>>

\* unwrap_option_or(&opt, default_val)
UnwrapOptionOr ==
    \E default_val \in Defaults, g \in GarbageValues :
        /\ last' = Op("unwrap_option_or", opt, default_val, "", "",
                      unwrap_option_or(opt, default_val, g))
        /\ UNCHANGED <<opt, rst, opt_origin, rst_origin, dispatch>>

\* rst = RESULT_MAP(&rst, func, int);
ResultMap ==
    \E func \in Mappers, gv \in GarbageValues, gm \in GarbageMessages :
        LET e == RESULT_MAP(rst, func, gv, gm) IN
        /\ rst' = e.val
        /\ rst_origin' = NoOrigin
        /\ last' = Op("RESULT_MAP", rst, 0, "", func, e)
        /\ UNCHANGED <<opt, opt_origin, dispatch>>

\* rst = RESULT_AND_THEN(&rst, func);
ResultAndThen ==
    \E func \in Binders, gv \in GarbageValues :
        LET e == RESULT_AND_THEN(rst, func, gv) IN
        /\ rst' = e.val
        /\ rst_origin' = NoOrigin
        /\ last' = Op("RESULT_AND_THEN", rst, 0, "", func, e)
        /\ UNCHANGED <<opt, opt_origin, dispatch>>

\* opt = OPTION_MAP(&opt, func, int);
OptionMap ==
    \E func \in Mappers, gv \in GarbageValues :
        LET e == OPTION_MAP(opt, func, gv) IN
        /\ opt' = e.val
        /\ opt_origin' = NoOrigin
        /\ last' = Op("OPTION_MAP", opt, 0, "", func, e)
        /\ UNCHANGED <<rst, rst_origin, dispatch>>

\* opt = OPTION_AND_THEN(&opt, func);
OptionAndThen ==
    \E func \in Binders, gv \in GarbageValues :
        LET e == OPTION_AND_THEN(opt, func, gv) IN
        /\ opt' = e.val
        /\ opt_origin' = NoOrigin
        /\ last' = Op("OPTION_AND_THEN", opt, 0, "", func, e)
        /\ UNCHANGED <<rst, rst_origin, dispatch>>

\* opt = OPTION_FILTER(&opt, predicate);
OptionFilter ==
    \E predicate \in Predicates, gv \in GarbageValues :
        LET e == OPTION_FILTER(opt, predicate, gv) IN
        /\ opt' = e.val
        /\ opt_origin' = NoOrigin
        /\ last' = Op("OPTION_FILTER", opt, 0, "", predicate, e)
        /\ UNCHANGED <<rst, rst_origin, dispatch>>

\* rst = OPTION_TO_RESULT(&opt, error_msg, int);
OptionToResult ==
    \E error_msg \in Messages, gv \in GarbageValues :
        LET e == OPTION_TO_RESULT(opt, error_msg, gv) IN
        /\ rst' = e.val
        /\ rst_origin' = [set |-> TRUE, o |-> opt, e |-> error_msg]
        /\ last' = Op("OPTION_TO_RESULT", opt, 0, error_msg, "", e)
        /\ UNCHANGED <<opt, opt_origin, dispatch>>

\* opt = RESULT_TO_OPTION(&rst, int);
ResultToOption ==
    \E gv \in GarbageValues :
        LET e == RESULT_TO_OPTION(rst, gv) IN
        /\ opt' = e.val
        /\ opt_origin' = rst_origin
        /\ last' = Op("RESULT_TO_OPTION", rst, 0, "", "", e)
        /\ UNCHANGED <<rst, rst_origin, dispatch>>

LibNext ==
    \/ SomeInt
    \/ NoneInt
    \/ OkInt
    \/ ErrInt
    \/ UnwrapOr
    \/ UnwrapOptionOr
    \/ ResultMap
    \/ ResultAndThen
    \/ OptionMap
    \/ OptionAndThen
    \/ OptionFilter
    \/ OptionToResult
    \/ ResultToOption

\* ------------------------------------------------------------------------
\* Dispatch programs
\* ------------------------------------------------------------------------

\* Addresses of two tagged unions of the program (automatic storage).
ObjA == <<0, 32765, 20480, 256>>
ObjB == <<0, 32765, 20480, 512>>

\* The arity limit of COUNT_ARGS, MATCH_N, WHEN_N, MATCH_EXPR_N and IS_N.
MaxArity == 10

\* Bound on the number of when / is clauses of a one-subject dispatch.
MaxClauses == 3

\* n positions holding b, except position k, which holds o.
Tup(n, b, o, k) == [i \in 1..n |-> IF i = k THEN o ELSE b]

NoNested ==
    [on |-> FALSE, at |-> 0, form |-> "stmt", args |-> <<>>, clauses |-> <<>>,
     ow |-> FALSE]

\* The program before a dispatch on subjects a with clauses c, the body at
\* clause n.at holding the dispatch n when n.on.
StartNested(f, a, c, ow, h, n) ==
    /\ form = f
    /\ evals = [i \in 1..Len(a) |-> 0]
    /\ nested = n
    /\ outer = <<>>
    /\ inner = NoInner
    /\ args = a
    /\ clauses = c
    /\ hasOtherwise = ow
    /\ heap = h
    /\ v = <<>>
    /\ v_orig = <<>>
    /\ matched = 0
    /\ variant_extracted_value = NullPtr
    /\ pc = "start"
    /\ ci = 0
    /\ res = <<>>
    /\ ran = <<>>
    /\ passes = 0
    /\ result = -1
    /\ LibIdle

Start(f, a, c, ow, h) == StartNested(f, a, c, ow, h, NoNested)

\* The forms a dispatch is written in: expression form always ends in a default.
Forms == { <<"stmt", TRUE>>, <<"stmt", FALSE>>, <<"expr", TRUE>> }

\* Patterns are written for the kind of subject they are matched against:
\* variant(tag) and bare tag constants for the address of a tagged union,
\* literals, comparisons and ranges for an integer; the wildcard for both.

\* One-subject dispatches with up to MaxClauses clauses.
DispatchSubjects ==
    { IntArg(42), IntArg(5000), PtrArg(ObjA), PtrArg(ObjB) }

DispatchPatterns(s) ==
    IF s.t = "int"
    THEN { IntArg(42), IntArg(7), PtrArg(WILDCARD), PtrArg(gt(FromInt(100))) }
    ELSE { IntArg(3), IntArg(4), PtrArg(WILDCARD), PtrArg(variant(None)) }

InitDispatch ==
    \E f \in Forms, s \in DispatchSubjects, k \in 1..MaxClauses :
    \E c \in [1..k -> [1..1 -> DispatchPatterns(s)]] :
        Start(f[1], <<s>>, c, f[2], [a \in {ObjA, ObjB} |->
                                       IF a = ObjA THEN Some ELSE None])

\* Dispatches of every arity: one clause, or one clause followed by an
\* all-wildcard clause; the subjects (patterns) are equal at all positions
\* but one.
AritySubjects == { IntArg(42), IntArg(5000), PtrArg(ObjA) }

ArityPatterns ==
    { IntArg(42), IntArg(3), PtrArg(WILDCARD), PtrArg(lt(FromInt(100))) }

InitArity ==
    \E f \in Forms, n \in 1..MaxArity :
    \E k \in 1..n, b \in AritySubjects \ {IntArg(5000)}, o \in AritySubjects,
       p \in ArityPatterns, q \in ArityPatterns, two \in BOOLEAN :
        Start(f[1], Tup(n, b, o, k),
              IF two THEN <<Tup(n, p, q, k), [i \in 1..n |-> PtrArg(WILDCARD)]>>
              ELSE <<Tup(n, p, q, k)>>,
              f[2], [a \in {ObjA} |-> Some])

\* One subject against one pattern, over the values and patterns of interest.
IntVals ==
    { -70000, -1, 0, 1, 3, 4, 42, 100, 4096, 5000, 40000, 65535, 65536,
      70000, 2147483647 }

Thresholds == { -70000, -1, 0, 42, 100, 70000 }

RangeBounds == { -40000, -10, 0, 10, 20, 40000, 70000 }

TagVals ==
    { <<0, 0>>, Ok, Some, None, <<0, 65535>>, <<1, 0>>, <<4660, 22136>>,
      <<65535, 65535>> }

\* range and between are written with low <= high.
BoundPairs == { b \in RangeBounds \X RangeBounds : b[1] <= b[2] }

IntPatterns ==
    { IntArg(y) : y \in IntVals }
    \cup { PtrArg(Inequality(t, FromInt(y))) : t \in 1..5, y \in Thresholds }
    \cup { PtrArg(range(FromInt(b[1]), FromInt(b[2]))) : b \in BoundPairs }
    \cup { PtrArg(between(FromInt(b[1]), FromInt(b[2]))) : b \in BoundPairs }
    \cup { PtrArg(WILDCARD) }

UnionPatterns ==
    { IntArg(y) : y \in IntVals }
    \cup { PtrArg(variant(t)) : t \in TagVals }
    \cup { PtrArg(WILDCARD) }

InitEval ==
    \E f \in {"stmt", "expr"} :
        \/ \E x \in IntVals, p \in IntPatterns :
             Start(f, <<IntArg(x)>>, <<(<<p>>)>>, TRUE, [a \in {ObjA} |-> Some])
        \/ \E d \in TagVals, p \in UnionPatterns :
             Start(f, <<PtrArg(ObjA)>>, <<(<<p>>)>>, TRUE, [a \in {ObjA} |-> d])

\* Dispatches of arity 2..10 on tagged unions written with bare tag
\* constants: every subject is the Some union and every pattern the constant
\* Some, except one position, which holds another union or an integer, and
\* another constant.
ObjC == <<0, 32765, 20480, 768>>

TaggedHeap ==
    [a \in {ObjA, ObjB, ObjC} |-> IF a = ObjB THEN None ELSE Some]

TaggedSubjects == { PtrArg(ObjA), PtrArg(ObjB), IntArg(7) }

TaggedPatterns == { IntArg(3), IntArg(4), IntArg(7) }

InitTagged ==
    \E f \in Forms, n \in 2..MaxArity :
    \E k \in 1..n, o \in TaggedSubjects, q \in TaggedPatterns :
        Start(f[1], Tup(n, PtrArg(ObjA), o, k), <<Tup(n, IntArg(3), q, k)>>,
              f[2], TaggedHeap)

\* The grade function: let(score) in( is(ge(90)) ? 'A' : is(ge(80)) ? 'B'
\* : is(ge(70)) ? 'C' : is(ge(60)) ? 'D' : 'F' ).
GradeClauses ==
    << <<PtrArg(ge(FromInt(90)))>>, <<PtrArg(ge(FromInt(80)))>>,
       <<PtrArg(ge(FromInt(70)))>>, <<PtrArg(ge(FromInt(60)))>> >>

GradeLetters == <<"A", "B", "C", "D">>

Scores ==
    { -2147483647, -70000, -1, 0, 10, 59, 60, 61, 69, 70, 71, 79, 80, 85, 89,
      90, 92, 100, 4096, 4097, 65536, 2147483647 }

InitGrade ==
    \E score \in Scores :
        Start("expr", <<IntArg(score)>>, GradeClauses, TRUE, TaggedHeap)

\* The 3-ary dispatch over three Option objects, in both forms:
\* (Some, Some, Some), (Some, None, Some), (None, __, __), otherwise.
TripleClauses ==
    << <<IntArg(3), IntArg(3), IntArg(3)>>,
       <<IntArg(3), IntArg(4), IntArg(3)>>,
       <<IntArg(4), PtrArg(WILDCARD), PtrArg(WILDCARD)>> >>

InitTriple ==
    \E f \in {"stmt", "expr"} :
    \E h \in [{ObjA, ObjB, ObjC} -> {Some, None}] :
        Start(f, <<PtrArg(ObjA), PtrArg(ObjB), PtrArg(ObjC)>>, TripleClauses,
              TRUE, h)

\* Dispatches with a clause of fewer patterns than subjects, which the
\* compiler accepts: WHEN_M / IS_M name __v1..__vM only.
ShortPatterns == { IntArg(3), IntArg(9), PtrArg(WILDCARD) }

InitShort ==
    \E f \in Forms, n \in 2..MaxArity :
    \E m \in 1..(n - 1), p \in ShortPatterns :
        Start(f[1], [i \in 1..n |-> IntArg(3)], <<[i \in 1..m |-> p]>>,
              f[2], TaggedHeap)

\* Dispatches of every arity with one subject that is a call with a side
\* effect, as in match(next_val()) { when(1) ... }.
CallPatterns == { IntArg(1), IntArg(2), PtrArg(WILDCARD) }

InitCall ==
    \E f \in Forms, n \in 1..MaxArity :
    \E k \in 1..n, p \in CallPatterns :
        Start(f[1], Tup(n, IntArg(1), CallArg(1), k),
              <<Tup(n, IntArg(1), p, k)>>, f[2], TaggedHeap)

\* A dispatch on an integer whose clause at (0: otherwise) holds another
\* dispatch in its body:
\*   match(x) { when(1) { match(y) { when(1) {..} when(2) {..} otherwise {..} } }
\*              when(2) {..} otherwise {..} }
NestedSubjects == { 1, 2, 3 }

NestedClauses == << <<IntArg(1)>>, <<IntArg(2)>> >>

InitNested ==
    \E x \in NestedSubjects, y \in NestedSubjects, at \in 0..2 :
    \E f \in Forms, ow \in BOOLEAN :
        /\ at = 0 => ow
        /\ StartNested("stmt", <<IntArg(x)>>, NestedClauses, ow, TaggedHeap,
                       [on |-> TRUE, at |-> at, form |-> f[1],
                        args |-> <<IntArg(y)>>, clauses |-> NestedClauses,
                        ow |-> f[2]])

Init ==
    \/ InitEval
    \/ InitDispatch
    \/ InitArity
    \/ InitTagged
    \/ InitGrade
    \/ InitTriple
    \/ InitShort
    \/ InitCall
    \/ InitNested

Spec == Init /\ [][Next]_vars

\* A program that uses the library: both objects come out of a constructor,
\* and no dispatch is in progress.
LibInit ==
    /\ form = "stmt" /\ args = <<>> /\ clauses = <<>> /\ hasOtherwise = TRUE
    /\ heap = TaggedHeap /\ v = <<>> /\ v_orig = <<>> /\ matched = 0
    /\ variant_extracted_value = NullPtr /\ pc = "done" /\ ci = 0
    /\ res = <<>> /\ ran = <<>> /\ passes = 0 /\ result = -1
    /\ evals = <<>> /\ nested = NoNested /\ outer = <<>> /\ inner = NoInner
    /\ opt \in {some_T(val) : val \in Payloads} \cup {none_T}
    /\ rst \in {ok_T(val) : val \in Payloads} \cup {err_T(msg) : msg \in Messages}
    /\ opt_origin = NoOrigin
    /\ rst_origin = NoOrigin
    /\ last = Op("idle", none_T, 0, "", "", NoEffect)

LibSpec == LibInit /\ [][LibNext]_vars

\* ------------------------------------------------------------------------
\* Properties
\* ------------------------------------------------------------------------

\* The dispatch is over: control left the match, or the process died in it.
Finished == pc \in {"done", "fault"}

\* Clause 1 was the one selected: its body ran / its expression is the result.
Sel1 == IF form = "stmt" THEN ran = <<1>> ELSE result = 1

\* Index of the first clause recorded as matching in this pass, 0 if none.
FirstMatch ==
    IF \E c \in 1..Len(res) : res[c] = 1
    THEN CHOOSE c \in 1..Len(res) : res[c] = 1 /\ \A b \in 1..(c - 1) : res[b] # 1
    ELSE 0

\* Position i of the pattern list pats accepts subject i, evaluated on its own.
PosMatch(w, i, pats) ==
    LET o == evaluate_pattern_enhanced(heap, w, NullPtr, v_orig[i], v[i],
                                       auto_pattern(pats[i]))
    IN  ~o.fault /\ o.ret = 1

\* One int subject x against one pattern argument a, in either form.
OneOnOne(x, a) ==
    /\ Len(args) = 1
    /\ args[1] = IntArg(x)
    /\ clauses = <<(<<a>>)>>

\* The subject is the address of a tagged union the program owns.
UnionSubject == Len(args) = 1 /\ args[1].t = "ptr" /\ args[1].p \in DOMAIN heap

\* C1: in statement form with an otherwise clause, every dispatch runs
\* exactly one body: that of the first when clause that matched, or the
\* otherwise body when none matched; no body runs twice and nothing runs
\* after the first match.
C1_ExactlyOneBody ==
    (form = "stmt" /\ hasOtherwise) =>
        /\ Len(ran) <= 1
        /\ Finished => /\ Len(ran) = 1
                       /\ Len(res) = Len(clauses)
                       /\ ran[1] = FirstMatch

\* C2: a statement-form match without otherwise tests its clause list once:
\* when no clause matches, no body runs and control leaves the block.
C2_NoOtherwiseTestedOnce ==
    (form = "stmt" /\ ~hasOtherwise) =>
        /\ passes <= 1
        /\ (pc = "looptest" /\ matched = 0) => ran = <<>>

\* C3: for every arity 1..10 and both forms, a tested clause matches iff
\* each of its positions accepts its subject; one failing position fails it.
C3_ClauseIsConjunction ==
    \A c \in 1..Len(res) :
        (res[c] # Skipped /\ Len(clauses[c]) = Len(args)) =>
            \E w \in WildOutcomes :
                (res[c] = 1) <=>
                    \A i \in 1..Len(clauses[c]) : PosMatch(w, i, clauses[c])

\* C3 witness: a 10-ary clause failed in expression form although nine of
\* its ten positions accept their subjects.
C3_Witness ==
    /\ form = "expr"
    /\ Len(args) = MaxArity
    /\ Len(res) >= 1
    /\ res[1] = 0
    /\ \E k \in 1..MaxArity : \A w \in WildOutcomes :
         \A i \in 1..MaxArity : PosMatch(w, i, clauses[1]) <=> i # k

\* C4: in expression form the result is the expression of the first clause
\* that matches, and the trailing default when no clause matches.
C4_ExprFirstMatch ==
    (form = "expr" /\ Finished) =>
        /\ result = FirstMatch
        /\ result = 0 => Len(res) = Len(clauses)

\* C5: a literal pattern built from the integer y matches the integer
\* subject x iff x = y, for negative, zero and positive values.
C5_Literal ==
    \A x \in IntVals, y \in IntVals :
        (OneOnOne(x, IntArg(y)) /\ pc = "done") => (Sel1 <=> x = y)

\* The comparison a pattern of kind t (1..5: gt ge lt le ne) stands for.
Compare(t, x, y) ==
    CASE t = 1 -> x > y
      [] t = 2 -> x >= y
      [] t = 3 -> x < y
      [] t = 4 -> x <= y
      [] t = 5 -> x # y

\* C6: gt(y), ge(y), lt(y), le(y), ne(y) match the integer subject x iff
\* x > y, x >= y, x < y, x <= y, x # y, for thresholds of either sign.
C6_Inequalities ==
    \A x \in IntVals, y \in Thresholds, t \in 1..5 :
        (OneOnOne(x, PtrArg(Inequality(t, FromInt(y)))) /\ pc = "done") =>
            (Sel1 <=> Compare(t, x, y))

\* C7: between(lo, hi) matches x iff lo <= x <= hi and range(lo, hi)
\* matches x iff lo < x < hi, for all integers x, lo, hi.
C7_Ranges ==
    \A x \in IntVals, lo \in RangeBounds, hi \in RangeBounds :
        lo <= hi =>
        /\ (OneOnOne(x, PtrArg(between(FromInt(lo), FromInt(hi)))) /\ pc = "done")
              => (Sel1 <=> (lo <= x /\ x <= hi))
        /\ (OneOnOne(x, PtrArg(range(FromInt(lo), FromInt(hi)))) /\ pc = "done")
              => (Sel1 <=> (lo < x /\ x < hi))

\* The pattern argument a is the wildcard __.
IsWild(a) == a = PtrArg(WILDCARD)

\* C8: the wildcard accepts every subject, integer or address; a tested
\* clause matches iff its positions other than the wildcards accept their
\* subjects, so an all-wildcard clause always matches, and no evaluation of
\* a wildcard position reads memory.
C8_Wildcard ==
    /\ \A i \in 1..Len(v) : \A w \in WildOutcomes :
          evaluate_pattern_enhanced(heap, w, variant_extracted_value,
                                    v_orig[i], v[i], auto_pattern(PtrArg(WILDCARD)))
            = Outcome(1, FALSE, variant_extracted_value)
    /\ \A c \in 1..Len(res) :
          (res[c] # Skipped /\ Len(clauses[c]) = Len(args)) =>
              \E w \in WildOutcomes :
                  (res[c] = 1) <=>
                      \A i \in 1..Len(clauses[c]) :
                          IsWild(clauses[c][i]) \/ PosMatch(w, i, clauses[c])
    /\ pc = "fault" => \E i \in 1..Len(clauses[ci]) : ~IsWild(clauses[ci][i])

\* C8 witness: a clause with wildcards at all positions but one matched
\* subjects that include the address of a tagged union.
C8_Witness ==
    /\ Len(args) >= 3
    /\ \E i \in 1..Len(args) : args[i].t = "ptr"
    /\ Len(res) >= 1
    /\ res[1] = 1
    /\ \E k \in 1..Len(args) :
         \A i \in 1..Len(args) : IsWild(clauses[1][i]) <=> i # k

\* C9: on the address of a tagged union with discriminant d, variant(t)
\* matches iff d = t, for every 32-bit t; a mismatch is a plain false, never
\* a fault, and a dispatch whose clauses are all variants of other tags runs
\* its otherwise body.
C9_Variant ==
    UnionSubject =>
        LET d == heap[args[1].p] IN
        /\ \A c \in 1..Len(res), t \in TagVals :
              (clauses[c] = <<PtrArg(variant(t))>> /\ res[c] # Skipped) =>
                  (res[c] = 1 <=> d = t)
        /\ pc = "fault" => \A t \in TagVals : clauses[ci] # <<PtrArg(variant(t))>>
        /\ ( /\ pc = "done"
             /\ form = "stmt"
             /\ hasOtherwise
             /\ \A c \in 1..Len(clauses) :
                   \E t \in TagVals \ {d} : clauses[c] = <<PtrArg(variant(t))>> )
           => ran = <<0>>

\* C9 witness: the otherwise body ran because the only clause names a tag
\* that differs from the discriminant in its upper 16 bits only.
C9_Witness ==
    /\ UnionSubject
    /\ heap[args[1].p] = <<0, 0>>
    /\ clauses = <<(<<PtrArg(variant(<<1, 0>>))>>)>>
    /\ pc = "done"
    /\ ran = <<0>>

\* C10: on the address of a tagged union, with the bare constant k and the
\* discriminant both in 1..65535, matching against k gives the result and
\* the extracted payload address that matching against variant(k) gives.
C10_BareTagIsVariant ==
    ( /\ UnionSubject
      /\ heap[args[1].p][1] = 0
      /\ heap[args[1].p][2] >= 1
      /\ Len(clauses[1]) = 1
      /\ clauses[1][1].t = "int"
      /\ clauses[1][1].x \in 1..65535
      /\ passes = 1
      /\ Len(res) = 1 )
    => \A w \in WildOutcomes :
         LET k == clauses[1][1].x
             o == evaluate_pattern_enhanced(heap, w, NullPtr, v_orig[1],
                                            v[1], variant(<<0, k>>))
         IN  /\ ~o.fault
             /\ res[1] = o.ret
             /\ variant_extracted_value = o.ext

\* C10 witness: the bare constant 65535 matched a union whose discriminant
\* is 65535 and the payload address was recorded.
C10_Witness ==
    /\ UnionSubject
    /\ heap[args[1].p] = <<0, 65535>>
    /\ clauses = <<(<<IntArg(65535)>>)>>
    /\ pc = "done"
    /\ Sel1
    /\ variant_extracted_value = AddSmall(args[1].p, VARIANT_UNION_OFFSET)

\* The clause pats is written with integer constants only: bare tags for
\* the unions, literals for the integers.
AllConstants(pats) == \A i \in 1..Len(pats) : pats[i].t = "int"

\* Subject i is the address of a tagged union the program owns.
IsUnion(i) == args[i].t = "ptr" /\ args[i].p \in DOMAIN heap

\* What position i of a clause of constants asks of subject i: the union's
\* discriminant, or the integer's value, is the constant.
NamedAt(i, pats) ==
    IF IsUnion(i) THEN heap[args[i].p] = U32(FromInt(pats[i].x))
    ELSE args[i].t = "int" /\ args[i].x = pats[i].x

\* C11: for every arity 2..10 and both forms, a tested clause of bare tag
\* constants, with integer literals at the positions that hold integers,
\* matches iff every tagged union has the discriminant named at its position
\* and every integer is its literal; the test always returns.
C11_BareTagsEveryPosition ==
    ( /\ Len(args) >= 2
      /\ \E i \in 1..Len(args) : IsUnion(i)
      /\ \A i \in 1..Len(args) : IsUnion(i) \/ args[i].t = "int"
      /\ Len(clauses[1]) = Len(args)
      /\ AllConstants(clauses[1]) )
    => /\ ~(pc = "fault" /\ ci = 1)
       /\ (Len(res) >= 1 /\ passes = 1) =>
             (res[1] = 1 <=> \A i \in 1..Len(args) : NamedAt(i, clauses[1]))

\* C12: on an integer subject x and a literal pattern y, in either form,
\* evaluate_pattern_enhanced returns what evaluate_pattern returns, x = y,
\* whatever lies in memory at the address x, and never faults reading it.
C12_IntegersUnaffected ==
    \A x \in IntVals, y \in IntVals :
        (OneOnOne(x, IntArg(y)) /\ Len(v) = 1) =>
            \A w \in WildOutcomes :
                LET e == evaluate_pattern_enhanced(heap, w, NullPtr, v_orig[1],
                                                   v[1], auto_pattern(IntArg(y)))
                    p == evaluate_pattern(heap, w, NullPtr, v[1],
                                          auto_pattern(IntArg(y)))
                IN  /\ ~e.fault
                    /\ e.ret = p.ret

\* Every message an Err of the program can carry.
AllMessages == Messages \cup {"negative"}

\* C13: is_some(some_T(v)), is_none(none_T()), is_ok(ok_T(v)) and
\* is_err(err_T(m)) hold for every payload v and message m, and the opposite
\* predicate is false for each constructor.
C13_ConstructorPredicates ==
    /\ \A val \in Payloads :
          /\ is_some(some_T(val)) /\ ~is_none(some_T(val))
          /\ is_ok(ok_T(val)) /\ ~is_err(ok_T(val))
    /\ is_none(none_T) /\ ~is_some(none_T)
    /\ \A msg \in AllMessages : is_err(err_T(msg)) /\ ~is_ok(err_T(msg))
    /\ last.name = "some" => is_some(opt) /\ ~is_none(opt)
    /\ last.name = "none" => is_none(opt) /\ ~is_some(opt)
    /\ last.name = "ok" => is_ok(rst) /\ ~is_err(rst)
    /\ last.name = "err" => is_err(rst) /\ ~is_ok(rst)

\* C13 witness: err_int("x") was just called and the object is an Err.
C13_Witness ==
    /\ last.name = "err"
    /\ last.argm = "x"
    /\ rst = err_T("x")
    /\ is_err(rst)

\* C14: every Option the operations produce has tag Some or None, every
\* Result has tag Ok or Err, so exactly one predicate of the family holds
\* for it; the four discriminants are pairwise distinct.
C14_TagsWellFormed ==
    /\ opt.tag \in {Some, None}
    /\ rst.tag \in {Ok, Err}
    /\ is_some(opt) # is_none(opt)
    /\ is_ok(rst) # is_err(rst)
    /\ Cardinality({Ok, Err, Some, None}) = 4

\* C14 witness: OPTION_FILTER rejected the payload of a Some and produced
\* a None.
C14_Witness ==
    /\ last.name = "OPTION_FILTER"
    /\ is_some(last.in)
    /\ last.calls = <<5>>
    /\ is_none(opt)

\* C15: unwrap_option_or gives the payload of a Some and the default for a
\* None, unwrap_or the payload of an Ok and the default for an Err; the
\* value member of a None or an Err is never read.
C15_UnwrapOr ==
    /\ last.name = "unwrap_option_or" =>
          /\ \A val \in Payloads : last.in = some_T(val) => last.outv = val
          /\ is_none(last.in) => last.outv = last.argv /\ "value" \notin last.reads
    /\ last.name = "unwrap_or" =>
          /\ \A val \in Payloads : last.in = ok_T(val) => last.outv = val
          /\ is_err(last.in) => last.outv = last.argv /\ "value" \notin last.reads

\* C15 witness: unwrap_or(&err, 999) returned 999.
C15_Witness ==
    /\ last.name = "unwrap_or"
    /\ last.in = err_T("x")
    /\ last.argv = 999
    /\ last.outv = 999

\* C16: RESULT_TO_OPTION turns Ok(v) into Some(v) and Err(m) into None;
\* OPTION_TO_RESULT(opt, e) turns Some(v) into Ok(v) and None into Err(e);
\* v and e come through unchanged.
C16_Conversions ==
    /\ last.name = "RESULT_TO_OPTION" =>
          /\ \A val \in Payloads : last.in = ok_T(val) => opt = some_T(val)
          /\ is_err(last.in) => opt = none_T
    /\ last.name = "OPTION_TO_RESULT" =>
          /\ \A val \in Payloads : last.in = some_T(val) => rst = ok_T(val)
          /\ is_none(last.in) => rst = err_T(last.argm)

\* C16 witness: OPTION_TO_RESULT(&none, "e") produced Err("e").
C16_Witness ==
    /\ last.name = "OPTION_TO_RESULT"
    /\ last.in = none_T
    /\ last.argm = "e"
    /\ rst = err_T("e")

\* C17: for an Option opt0, a message e and a default d,
\* unwrap_option_or(RESULT_TO_OPTION(OPTION_TO_RESULT(opt0, e)), d) is
\* unwrap_option_or(opt0, d).
C17_RoundTrip ==
    (last.name = "unwrap_option_or" /\ opt_origin.set) =>
        \A g \in GarbageValues :
            last.outv = unwrap_option_or(opt_origin.o, last.argv, g).val

\* C17 witness: a None went through both conversions and unwrapped to the
\* default 999.
C17_Witness ==
    /\ last.name = "unwrap_option_or"
    /\ opt_origin.set
    /\ opt_origin.o = none_T
    /\ last.argv = 999
    /\ last.outv = 999

\* C18: RESULT_MAP and RESULT_AND_THEN on Err(m) return Err(m) and
\* OPTION_MAP and OPTION_AND_THEN on None return None, without calling the
\* function; on Ok(v) / Some(v) the function is called once, with v, and
\* its result is what comes back.
C18_Combinators ==
    /\ last.name \in {"RESULT_MAP", "RESULT_AND_THEN"} =>
          /\ is_err(last.in) =>
                /\ last.calls = <<>>
                /\ rst = err_T(last.in.u.x)
          /\ \A val \in Payloads : last.in = ok_T(val) =>
                /\ last.calls = <<val>>
                /\ rst = IF last.name = "RESULT_MAP"
                         THEN ok_T(CallMapper(last.argf, val))
                         ELSE CallResultBinder(last.argf, val)
    /\ last.name \in {"OPTION_MAP", "OPTION_AND_THEN"} =>
          /\ is_none(last.in) =>
                /\ last.calls = <<>>
                /\ opt = none_T
          /\ \A val \in Payloads : last.in = some_T(val) =>
                /\ last.calls = <<val>>
                /\ opt = IF last.name = "OPTION_MAP"
                         THEN some_T(CallMapper(last.argf, val))
                         ELSE CallOptionBinder(last.argf, val)

\* C18 witness: RESULT_MAP on Err("x") gave back Err("x") and called nothing.
C18_Witness ==
    /\ last.name = "RESULT_MAP"
    /\ last.in = err_T("x")
    /\ last.calls = <<>>
    /\ rst = err_T("x")

\* The letter the chain yields: that of the clause selected, 'F' by default.
GradeOf(r) == IF r \in 1..Len(GradeLetters) THEN GradeLetters[r] ELSE "F"

\* The reference grade function.
RefGrade(score) ==
    IF score >= 90 THEN "A"
    ELSE IF score >= 80 THEN "B"
    ELSE IF score >= 70 THEN "C"
    ELSE IF score >= 60 THEN "D"
    ELSE "F"

\* C19: the grade function written with let / is(ge(..)) / in returns, for
\* every int score, the letter of the reference function, and always returns.
C19_GradeFunction ==
    (form = "expr" /\ clauses = GradeClauses /\ Len(args) = 1
       /\ args[1].t = "int") =>
        /\ pc # "fault"
        /\ pc = "done" => GradeOf(result) = RefGrade(args[1].x)

\* C19 witness: the scores 92, 85, 71, 60 and 10 of the scenario are graded,
\* here 71, which the third link of the chain selects.
C19_Witness ==
    /\ clauses = GradeClauses
    /\ args = <<IntArg(71)>>
    /\ pc = "done"
    /\ res = <<0, 0, 1>>
    /\ GradeOf(result) = "C"

\* Clause c of the 3-ary dispatch names the tags of the three subjects:
\* each position is the wildcard or the constant of the discriminant there.
TagsEqual(c) ==
    \A i \in 1..3 :
        \/ IsWild(clauses[c][i])
        \/ /\ clauses[c][i].t = "int"
           /\ heap[args[i].p] = U32(FromInt(clauses[c][i].x))

\* The first clause that names the subjects' tags, 0 (otherwise) if none.
FirstTagsEqual ==
    IF \E c \in 1..Len(clauses) : TagsEqual(c)
    THEN CHOOSE c \in 1..Len(clauses) :
             TagsEqual(c) /\ \A b \in 1..(c - 1) : ~TagsEqual(b)
    ELSE 0

\* C20: the 3-ary dispatch over Option subjects selects, in both forms, the
\* first clause whose bare tags equal the subjects' tags position by
\* position, the otherwise / default when there is none, and runs nothing
\* else.
C20_TripleDispatch ==
    (clauses = TripleClauses /\ Len(args) = 3) =>
        /\ pc # "fault"
        /\ pc = "done" =>
             IF form = "stmt" THEN ran = <<FirstTagsEqual>>
             ELSE result = FirstTagsEqual

\* C20 witness: match(&Some(10), &None, &Some(30)) ran its second body only.
C20_Witness ==
    /\ clauses = TripleClauses
    /\ form = "stmt"
    /\ heap[ObjA] = Some /\ heap[ObjB] = None /\ heap[ObjC] = Some
    /\ pc = "done"
    /\ ran = <<2>>
    /\ res = <<0, 1, Skipped>>

\* C20 witness: the same dispatch in expression form yields its second
\* expression.
C20_WitnessExpr ==
    /\ clauses = TripleClauses
    /\ form = "expr"
    /\ heap[ObjA] = Some /\ heap[ObjB] = None /\ heap[ObjC] = Some
    /\ pc = "done"
    /\ result = 2

\* The nearest bound a 16-bit signed field can hold.
Clamp16(x) == IF x > 32767 THEN 32767 ELSE IF x < -32768 THEN -32768 ELSE x

\* C21: the bounds stored by range(lo, hi) and between(lo, hi) are lo and
\* hi clamped to the nearest value the 16-bit field holds, so they keep the
\* order and the sign of the bounds supplied.
C21_BoundsClamped ==
    \A b \in BoundPairs : \A c \in 1..Len(clauses) :
        ( \/ clauses[c] = <<PtrArg(range(FromInt(b[1]), FromInt(b[2])))>>
          \/ clauses[c] = <<PtrArg(between(FromInt(b[1]), FromInt(b[2])))>> )
        => LET p == auto_pattern(clauses[c][1]) IN
           /\ GET_RANGE_LOW(p) = FromInt(Clamp16(b[1]))
           /\ GET_RANGE_HIGH(p) = FromInt(Clamp16(b[2]))
           /\ SLe(GET_RANGE_LOW(p), GET_RANGE_HIGH(p))

\* The patterns that are no variant: the wildcard, comparisons and ranges.
PlainPatterns ==
    { WILDCARD, gt(FromInt(100)), ge(FromInt(0)), lt(FromInt(100)),
      le(FromInt(-1)), ne(FromInt(0)), range(FromInt(0), FromInt(10)),
      between(FromInt(-10), FromInt(20)) }

\* The variant and bare-tag patterns tried at a union position.
TagPatterns ==
    { variant(Some), variant(None), variant(<<1, 0>>), variant(<<0, 0>>),
      FromInt(3), FromInt(4), FromInt(7) }

\* C25: evaluated at any subject position, a variant(tag) or bare-tag
\* pattern that matches the union at address a sets the extracted-payload
\* slot to a + VARIANT_UNION_OFFSET, and one that fails on the discriminant
\* leaves the slot as it was; the wildcard, comparisons and ranges leave it
\* as it was on every subject; none of these evaluations depends on memory
\* the program does not own.
C25_ExtractionSlot ==
    /\ \A i \in 1..Len(v) :
         LET w == [mapped |-> FALSE, val |-> <<0, 0>>] IN
         /\ \A p \in PlainPatterns :
               LET o == evaluate_pattern_enhanced(
                            heap, w, variant_extracted_value,
                            v_orig[i], v[i], p)
               IN  ~o.fault /\ o.ext = variant_extracted_value
         /\ (i <= Len(args) /\ IsUnion(i)) =>
               \A p \in TagPatterns :
                  LET o == evaluate_pattern_enhanced(
                               heap, w, variant_extracted_value,
                               v_orig[i], v[i], p)
                  IN  /\ ~o.fault
                      /\ o.ret = 1 =>
                            o.ext = AddSmall(args[i].p, VARIANT_UNION_OFFSET)
                      /\ o.ret = 0 => o.ext = variant_extracted_value
    /\ ( /\ Len(args) = 1 /\ Len(clauses) = 1 /\ Len(clauses[1]) = 1
         /\ Len(res) = 1 /\ passes = 1 ) =>
         /\ (clauses[1][1].t = "ptr" /\ clauses[1][1].p \in PlainPatterns) =>
               variant_extracted_value = NullPtr
         /\ (UnionSubject /\ \E t \in TagVals :
                               clauses[1][1] = PtrArg(variant(t))) =>
               variant_extracted_value =
                   IF res[1] = 1
                   THEN AddSmall(args[1].p, VARIANT_UNION_OFFSET)
                   ELSE NullPtr

\* C25 witness: variant(None) matched the None union and the slot holds
\* the address of its payload.
C25_Witness ==
    /\ UnionSubject
    /\ form = "stmt"
    /\ clauses = <<(<<PtrArg(variant(None))>>)>>
    /\ heap[args[1].p] = None
    /\ ran = <<1>>
    /\ variant_extracted_value = AddSmall(args[1].p, VARIANT_UNION_OFFSET)

\* C28: on the address of a union whose discriminant d is 0 or above
\* 65535, the bare constant d never matches, while variant(d) does.
C28_BlindRange ==
    (UnionSubject /\ (heap[args[1].p] = <<0, 0>> \/ heap[args[1].p][1] >= 1)) =>
        LET d == heap[args[1].p] IN
        /\ \A c \in 1..Len(res) : \A y \in IntVals :
              (clauses[c] = <<IntArg(y)>> /\ U32(FromInt(y)) = d) => res[c] = 0
        /\ \A c \in 1..Len(res) :
              clauses[c] = <<PtrArg(variant(d))>> => res[c] = 1

\* C28 witness: the constant 65536 was tested against a union whose
\* discriminant is 65536 and the default was taken.
C28_Witness ==
    /\ UnionSubject
    /\ heap[args[1].p] = <<1, 0>>
    /\ clauses = <<(<<IntArg(65536)>>)>>
    /\ pc = "done"
    /\ res = <<0>>
    /\ ~Sel1

\* C30: a pattern decodes to the kind and the arguments of the constructor
\* that built it: kind 0 for an integer literal, which is never the
\* wildcard, kind t and value y for a comparison, kind 6 / 7 and the bounds
\* for a range with 16-bit signed bounds, kind 8 and the tag for a variant.
C30_EncodingDecodes ==
    \A c \in 1..Len(clauses) : \A i \in 1..Len(clauses[c]) :
        LET a == clauses[c][i]
            p == auto_pattern(a)
        IN  /\ a.t = "int" => GET_PATTERN_TYPE(p) = 0 /\ ~IS_WILDCARD(p)
            /\ \A t \in 1..5, y \in Thresholds :
                  a = PtrArg(Inequality(t, FromInt(y))) =>
                      GET_PATTERN_TYPE(p) = t /\ GET_PATTERN_VALUE(p) = FromInt(y)
            /\ \A b \in BoundPairs :
                  (b[1] = Clamp16(b[1]) /\ b[2] = Clamp16(b[2])) =>
                    /\ a = PtrArg(range(FromInt(b[1]), FromInt(b[2]))) =>
                          /\ GET_PATTERN_TYPE(p) = 6
                          /\ GET_RANGE_LOW(p) = FromInt(b[1])
                          /\ GET_RANGE_HIGH(p) = FromInt(b[2])
                    /\ a = PtrArg(between(FromInt(b[1]), FromInt(b[2]))) =>
                          /\ GET_PATTERN_TYPE(p) = 7
                          /\ GET_RANGE_LOW(p) = FromInt(b[1])
                          /\ GET_RANGE_HIGH(p) = FromInt(b[2])
            /\ \A t \in TagVals :
                  a = PtrArg(variant(t)) =>
                      GET_PATTERN_TYPE(p) = 8 /\ GET_VARIANT_TAG(p) = t

\* C22: a clause whose number of patterns differs from the number of
\* subjects is never evaluated at run time.
C22_ArityMismatchRejected ==
    \A c \in 1..Len(res) :
        res[c] # Skipped => Len(clauses[c]) = Len(args)

\* C23: at subject positions 2..N a bare small integer constant is
\* compared as a plain literal with the subject value: the evaluation reads
\* no discriminant and leaves the extracted-payload slot alone.
C23_HeuristicFirstPositionOnly ==
    \A c \in 1..Len(clauses) : \A i \in 2..Len(v) :
        ( /\ i <= Len(clauses[c])
          /\ clauses[c][i].t = "int"
          /\ clauses[c][i].x \in 0..65535 ) =>
            \A w \in WildOutcomes :
                evaluate_pattern_enhanced(heap, w, variant_extracted_value,
                                          v_orig[i], v[i],
                                          auto_pattern(clauses[c][i]))
                  = Outcome(B2I(v[i] = auto_pattern(clauses[c][i])), FALSE,
                            variant_extracted_value)

\* The views a dispatch written in form f takes of the subjects, and the
\* objects it sees (MATCH_EXPR_1 and MATCH_EXPR_2 add their locals).
ViewVal == [i \in 1..N |-> CastSubject(Evaluate(args[i], 1))]

ViewOrig(f) ==
    [i \in 1..N |-> IF f = "expr" /\ N <= 2 THEN LocalAddr(i)
                    ELSE CastSubject(Evaluate(args[i], 2))]

ViewHeap(f) ==
    IF f = "expr" /\ N <= 2
    THEN [a \in DOMAIN heap \cup {LocalAddr(i) : i \in 1..N} |->
            IF \E i \in 1..N : a = LocalAddr(i)
            THEN U32(CastSubject(Evaluate(
                     args[CHOOSE i \in 1..N : a = LocalAddr(i)], 1)))
            ELSE heap[a]]
    ELSE heap

\* The clause a dispatch of the program written in form f selects, from
\* clause c on: its index, 0 for otherwise / the default, -1 when the
\* process dies in a test.
RECURSIVE SelectFrom(_, _, _, _)
SelectFrom(f, w, ext, c) ==
    IF c > K THEN 0
    ELSE LET o == IF f = "stmt"
                  THEN WHEN_N(ViewHeap(f), w, ext, ViewOrig(f), ViewVal,
                              clauses[c])
                  ELSE IS_N(ViewHeap(f), w, ext, ViewOrig(f), ViewVal,
                            clauses[c])
         IN  IF o.fault THEN -1
             ELSE IF o.ret # 0 THEN c
             ELSE SelectFrom(f, w, o.ext, c + 1)

Selected(f, w) == SelectFrom(f, w, NullPtr, 1)

OtherForm == IF form = "stmt" THEN "expr" ELSE "stmt"

\* C24: for the same subjects and clause list, ending in otherwise / a
\* default, the statement form runs the body of clause k iff the expression
\* form yields the expression of clause k, for every arity and both kinds
\* of subject; a dispatch that dies in one form dies in the other.
C24_FormsAgree ==
    hasOtherwise =>
        /\ pc = "start" =>
              \A w \in WildOutcomes : Selected("stmt", w) = Selected("expr", w)
        /\ pc = "done" =>
              \E w \in WildOutcomes :
                  Selected(OtherForm, w) =
                      IF form = "stmt" THEN ran[1] ELSE result
        /\ pc = "fault" => \E w \in WildOutcomes : Selected(OtherForm, w) = -1

\* C24 witness: an expression-form dispatch on a union yielded the
\* expression of its second clause, as the statement form does.
C24_Witness ==
    /\ form = "expr"
    /\ UnionSubject
    /\ Len(clauses) >= 2
    /\ pc = "done"
    /\ result = 2
    /\ \A w \in WildOutcomes : Selected("stmt", w) = 2

\* Position i of clause c is a variant or bare-tag pattern on a union.
VariantPosition(c, i) ==
    /\ IsUnion(i)
    /\ \/ clauses[c][i].t = "int"
       \/ clauses[c][i].t = "ptr" /\ GET_PATTERN_TYPE(clauses[c][i].p) = 8

\* The slot after the positions of clause c from i on, evaluated left to
\* right up to the first that fails, starting from slot.
RECURSIVE SlotAfterPositions(_, _, _)
SlotAfterPositions(c, i, slot) ==
    IF i > Len(clauses[c]) THEN slot
    ELSE IF ~PosMatch([mapped |-> TRUE, val |-> <<0, 0>>], i, clauses[c])
    THEN slot
    ELSE SlotAfterPositions(c, i + 1,
             IF VariantPosition(c, i)
             THEN AddSmall(args[i].p, VARIANT_UNION_OFFSET) ELSE slot)

\* The slot after the clauses tested, top to bottom.
RECURSIVE SlotAfterClauses(_, _)
SlotAfterClauses(c, slot) ==
    IF c > Len(res) \/ res[c] = Skipped THEN slot
    ELSE SlotAfterClauses(c + 1, SlotAfterPositions(c, 1, slot))

\* C27: after a multi-subject dispatch the extracted-payload slot holds the
\* payload address of the last variant or bare-tag position that evaluated
\* successfully, positions taken left to right with short circuit and
\* clauses top to bottom, including positions of clauses that failed as a
\* whole.
C27_SlotFollowsEvaluationOrder ==
    ( /\ pc = "done"
      /\ Len(args) >= 2
      /\ \A c \in 1..Len(clauses) : Len(clauses[c]) = Len(args) )
    => variant_extracted_value = SlotAfterClauses(1, NullPtr)

\* The first clause of the nested dispatch whose literal equals its subject
\* (0: none, the nested otherwise / default).
InnerFirst ==
    LET m == { c \in 1..Len(nested.clauses) :
                 nested.clauses[c] = nested.args }
    IN  IF m = {} THEN 0 ELSE CHOOSE c \in m : \A d \in m : c <= d

\* C26: a match nested in the body of a clause resolves on its own: the
\* inner dispatch selects its own first matching clause from its own
\* subject, and once it has completed the enclosing dispatch stays resolved:
\* the body that held it is the only outer body run, every later outer
\* clause is skipped and the outer otherwise does not run.
C26_NestedIndependent ==
    inner.on =>
        /\ IF nested.form = "stmt" THEN inner.ran = <<InnerFirst>>
           ELSE inner.result = InnerFirst
        /\ matched = 1
        /\ passes = 1
        /\ ran = <<nested.at>>
        /\ \A c \in 1..Len(res) :
              (nested.at # 0 /\ c > nested.at) => res[c] = Skipped

\* C26 witness: the body of the first outer clause held a dispatch that ran
\* its second clause; the outer dispatch then skipped its second clause and
\* completed without running otherwise.
C26_Witness ==
    /\ inner.on
    /\ nested.at = 1
    /\ nested.form = "stmt"
    /\ inner.ran = <<2>>
    /\ hasOtherwise
    /\ pc = "done"
    /\ ran = <<1>>
    /\ res = <<1, Skipped>>

\* C29: every subject expression is evaluated exactly once per dispatch, so
\* both views of a subject derive from the same evaluation.
C29_SubjectsEvaluatedOnce ==
    (pc # "start" /\ Len(v) = N) =>
        \A i \in 1..N :
            /\ evals[i] = 1
            /\ v[i] = CastSubject(Evaluate(args[i], 1))
            /\ \/ v_orig[i] = v[i]
               \/ /\ v_orig[i] = LocalAddr(i)
                  /\ heap[LocalAddr(i)] = U32(v[i])

====
